---- MODULE Spec2Model ----
(***************************************************************************)
(* The rules store of 3pseatBot: two sqlite tables (channel_configs,       *)
(* user_offenses), the Rules facade over them and the three memoized       *)
(* reads (get_config_cached, get_user_cached, get_users_cached).           *)
(*                                                                         *)
(* Two specifications share the definitions of the storage engine and of   *)
(* the cache:                                                              *)
(*   Spec      one caller; every facade call is one step.                  *)
(*   ConcSpec  several threads; a facade call is split at the points where *)
(*             another thread can run (between the statements of a         *)
(*             transaction, between the storage call of a memoized read    *)
(*             and the store of its result, between the commit of a write  *)
(*             and its cache_clear).  A writer that finds the write lock   *)
(*             taken waits; one that gives up instead raises before it has *)
(*             written anything, and is not a step of ConcSpec.            *)
(*   FaultSpec the threads of ConcSpec, whose write calls can also fail    *)
(*             at any of their statements (Fail).                          *)
(*   OpenSpec  one caller and a file that may not exist: Rules(db_path)    *)
(*             constructed once or several times (Open), and facade calls. *)
(*                                                                         *)
(* The rest of the bot has its own variables and specifications, during    *)
(* which the rules store is idle:                                          *)
(*   BansSpec     utils.py, the counts of Bans in its TinyDB tables.       *)
(*   CommandsSpec commands/custom.py, the table custom_commands and the    *)
(*                command tree, with the create and remove commands as     *)
(*                tasks split at their awaits.                             *)
(*   VoiceSpec    cogs/voice.py, the voice clients, the play command and   *)
(*                the leave_on_empty loop, which runs again and again.     *)
(*                                                                         *)
(* The variables named "history" record what the callers did and saw; the  *)
(* steps read none of them but calls, which bounds a behaviour.            *)
(***************************************************************************)
EXTENDS Integers, Sequences, FiniteSets, TLC

(* ------------------------------------------------------------------ *)
(* Bounds and input domains                                            *)
(* ------------------------------------------------------------------ *)

\* number of facade calls of one behaviour of Spec
MaxCalls == 3

\* ConcSpec: number of threads that call the facade, and of calls they begin
NumThreads == 2
MaxConcCalls == 3

Threads == 1..NumThreads

\* keys the caller of Spec uses: for every key there is one in the same guild
\* with another channel, one in another guild, and (users) one with another user
ConfigKeys == {<<1, 1>>, <<1, 2>>, <<2, 1>>}
UserKeys == {<<1, 1, 1>>, <<1, 1, 2>>, <<1, 2, 1>>, <<2, 1, 1>>}

\* values of the fields the callers vary
MaxOffensesValues == {3, 5}
PrefixesValues == {"3pseat 3pfeet", "3p"}
OffenseCounts == {0, 1}

(* ------------------------------------------------------------------ *)
(* Record model                                                        *)
(* ------------------------------------------------------------------ *)

\* the absent marker (Python None)
None == [none |-> TRUE]

\* CHANNEL_CONFIG of the tests with the key and the varied fields replaced;
\* the two float fields are kept in tenths (0.5 -> 5, 5.0 -> 50)
ChannelConfig(g, c, mo, px) ==
    [guild_id |-> g, channel_id |-> c, event_expectancy |-> 5,
     event_duration |-> 24, event_cooldown |-> 50, last_event |-> 0,
     max_offenses |-> mo, timeout_duration |-> 300, prefixes |-> px]

\* USER_OFFENSES of the tests with the key and the varied fields replaced
UserOffenses(g, c, u, cur, tot) ==
    [guild_id |-> g, channel_id |-> c, user_id |-> u,
     current_offenses |-> cur, total_offenses |-> tot, last_offense |-> 0]

ConfigKey(r) == <<r.guild_id, r.channel_id>>
UserKey(r) == <<r.guild_id, r.channel_id, r.user_id>>
ListKey(r) == <<r.guild_id, r.channel_id>>

ConfigInputs ==
    {ChannelConfig(k[1], k[2], mo, px) :
        k \in ConfigKeys, mo \in MaxOffensesValues, px \in PrefixesValues}
UserInputs ==
    {UserOffenses(k[1], k[2], k[3], cur, tot) :
        k \in UserKeys, cur \in OffenseCounts, tot \in OffenseCounts}
ListKeys == {<<k[1], k[2]>> : k \in UserKeys} \cup {<<2, 2>>}

(* ------------------------------------------------------------------ *)
(* Storage engine: a table is the sequence of its rows in rowid order; *)
(* the tables declare no primary key                                   *)
(* ------------------------------------------------------------------ *)

\* (variant) an update that inserts without deleting the rows of the key
DeleteNoConfigRows(table, key) == table

\* (variant) a DELETE that matches the guild and not the channel
DeleteConfigRowsOfGuild(table, key) ==
    SelectSeq(table, LAMBDA r : r.guild_id # key[1])

\* DELETE FROM channel_configs WHERE guild_id = :g AND channel_id = :c
DeleteConfigRows(table, key) ==
    SelectSeq(table, LAMBDA r : ConfigKey(r) # key)

\* (variant) an update that inserts without deleting the rows of the key
DeleteNoUserRows(table, key) == table

\* DELETE FROM user_offenses WHERE guild_id, channel_id, user_id match
DeleteUserRows(table, key) ==
    SelectSeq(table, LAMBDA r : UserKey(r) # key)

\* INSERT INTO <table> VALUES (...)
InsertRow(table, row) == Append(table, row)

\* (variant) a connection that is closed with its transaction uncommitted
RolledBack(table, written) == table

\* connect(): leaving "with db:" without an exception commits what the
\* statements wrote
Committed(table, written) == written

\* (variant) a connection in autocommit mode: a statement is committed as it runs
Autocommit(table, written) == written

\* connect(): the statements of a call run in the transaction "with db:" ends;
\* until its commit the other connections see the committed rows
Isolated(table, written) == table

\* (variant) a connection whose block commits what was written when it raises
CommitOnError(table, written) == written

\* connect(): leaving "with db:" with an exception rolls back what the
\* statements wrote
Rollback(table, written) == table

\* the error a storage failure raises to the caller of the facade
StorageUnavailable == [error |-> "StorageUnavailable"]

\* the statements of update_config, in order
PutConfig(table, config) ==
    InsertRow(DeleteConfigRows(table, ConfigKey(config)), config)

\* the statements of update_user, in order
PutUser(table, user) ==
    InsertRow(DeleteUserRows(table, UserKey(user)), user)

\* cursor.fetchone(): the first row of the result, None when it is empty
FetchOne(rows) == IF Len(rows) = 0 THEN None ELSE Head(rows)

\* (variant) a lookup that matches the channel and not the guild
SelectConfigByChannel(table, key) ==
    FetchOne(SelectSeq(table, LAMBDA r : r.channel_id = key[2]))

\* get_config: SELECT ... WHERE guild_id = :g AND channel_id = :c, fetchone
SelectConfig(table, key) ==
    FetchOne(SelectSeq(table, LAMBDA r : ConfigKey(r) = key))

\* get_user: SELECT ... WHERE guild_id, channel_id, user_id match, fetchone
SelectUser(table, key) ==
    FetchOne(SelectSeq(table, LAMBDA r : UserKey(r) = key))

\* (variant) a listing that matches the channel and not the guild
SelectUsersByChannel(table, lkey) ==
    SelectSeq(table, LAMBDA r : r.channel_id = lkey[2])

\* get_users: SELECT ... WHERE guild_id = :g AND channel_id = :c, fetchall
SelectUsers(table, lkey) ==
    SelectSeq(table, LAMBDA r : ListKey(r) = lkey)

(* ------------------------------------------------------------------ *)
(* Cache layer: one unbounded memoizing wrapper per read, with the     *)
(* hits and misses cache_info() reports                                *)
(* ------------------------------------------------------------------ *)

\* data[key] is <<>> for a key the memo does not hold and <<value>> for one it holds
Uncached == <<>>

EmptyCache(keys) == [data |-> [k \in keys |-> Uncached], hits |-> 0, misses |-> 0]

Cached(cache, key) == cache.data[key] # Uncached

CachedValue(cache, key) == cache.data[key][1]

\* a call of the wrapper that finds the key
CacheHit(cache) == [cache EXCEPT !.hits = @ + 1]

\* (variant) a wrapper that does not count the calls it passes to the wrapped read
CacheMissUncounted(cache) == cache

\* a call of the wrapper that does not find the key: counted before the
\* wrapped read runs
CacheMiss(cache) == [cache EXCEPT !.misses = @ + 1]

\* (variant) a wrapper that forgets what the wrapped read returned
CacheStoreNothing(cache, key, value) == cache

\* the wrapper keeps what the wrapped read returned, None and [] included
CacheStore(cache, key, value) == [cache EXCEPT !.data[key] = <<value>>]

\* (variant) a write that leaves the memo as it is
CacheKeep(cache) == cache

\* (variant) an invalidation that drops the entries and keeps the counters
CacheDropEntries(cache) ==
    [cache EXCEPT !.data = [k \in DOMAIN cache.data |-> Uncached]]

\* (variant) an invalidation that restarts the counters and keeps the entries
CacheResetCounters(cache) == [cache EXCEPT !.hits = 0, !.misses = 0]

\* cache_clear(): every entry goes and both counters restart at 0
CacheClear(cache) ==
    [data |-> [k \in DOMAIN cache.data |-> Uncached], hits |-> 0, misses |-> 0]

(* ------------------------------------------------------------------ *)
(* Names of the facade calls                                           *)
(* ------------------------------------------------------------------ *)

ConfigReads == {"get_config", "get_config_cached"}
UserReads == {"get_user", "get_user_cached"}
ListReads == {"get_users", "get_users_cached"}
CachedReads == {"get_config_cached", "get_user_cached", "get_users_cached"}

\* the write w changed what the read r looks up
Affects(w, r) ==
    \/ w.op = "update_config" /\ r.op \in ConfigReads /\ r.key = w.key
    \/ w.op = "update_user" /\ r.op \in UserReads /\ r.key = w.key
    \/ w.op = "update_user" /\ r.op \in ListReads /\ r.key = ListKey(w.arg)

\* the elements of a sequence
Range(seq) == {seq[i] : i \in DOMAIN seq}

\* the rows of a table under one key
ConfigRows(table, key) == SelectSeq(table, LAMBDA r : ConfigKey(r) = key)
UserRows(table, key) == SelectSeq(table, LAMBDA r : UserKey(r) = key)

(* ------------------------------------------------------------------ *)
(* State                                                               *)
(* ------------------------------------------------------------------ *)

VARIABLES
    channel_configs,   \* committed rows of table channel_configs
    user_offenses,     \* committed rows of table user_offenses
    config_cache,      \* the memo of get_config_cached
    user_cache,        \* the memo of get_user_cached
    users_cache,       \* the memo of get_users_cached
    latest_config,     \* history: per config key, the record last committed (None: never)
    latest_user,       \* history: per user key, the record last committed (None: never)
    calls,             \* history: number of facade calls begun
    prev,              \* history: the facade call completed before last
    last,              \* history: the facade call completed last
    pc,                \* ConcSpec: per thread, where it is in its facade call
    cur,               \* ConcSpec: per thread, the call it is in
    work,              \* ConcSpec: per thread, the table as its open transaction sees it
    wlock,             \* ConcSpec: the thread that holds the write lock of the file, 0: none
    begun,             \* ConcSpec: the threads that have called the facade
    log,               \* history: the committed writes, in commit order
    returned,          \* history: the indices in log of the writes whose call returned
    done,              \* history: the call of any thread that returned last
    raced,             \* history: a memoized read has run while a write of its table ran
    schema,            \* per table of the file, the number of times it was created
    opens,             \* the number of Rules(db_path) constructed on the file
    conns,             \* the threads whose call holds an open connection
    storage_reads,     \* history: per memo, the storage reads its wrapper has made
    bans,              \* BansSpec: per server, its table of 3pseatBans.json
    bans_calls,        \* history: number of Bans calls made
    bans_last,         \* history: the Bans call made last
    bans_ups,          \* history: per server and name, the calls of up that returned
                       \* since the last clear
    custom_commands,   \* CommandsSpec: the rows of the table custom_commands
    tree,              \* CommandsSpec: per guild, the names in bot.tree
    registered,        \* CommandsSpec: "no", or how register_all() ended
    tasks,             \* CommandsSpec: per task, the command it runs and where
    commands_begun,    \* history: number of create and remove commands begun
    interleaved,       \* history: a task has run while another was at an await
    voice_clients,     \* VoiceSpec: bot.voice_clients, the guilds in connection order
    members,           \* VoiceSpec: per guild, the users in its voice channel
    playing,           \* VoiceSpec: per guild, its voice client is playing
    loop_at,           \* VoiceSpec: where the leave_on_empty loop is
    invocation,        \* VoiceSpec: the play commands between ensure_voice and their body
    loop_left,         \* history: the client leave_on_empty disconnected last
    played             \* history: the play command that ended last

storeVars == <<channel_configs, user_offenses>>
fileVars == <<schema, opens>>
cacheVars == <<config_cache, user_cache, users_cache>>
histVars == <<latest_config, latest_user, calls, prev, last>>
threadVars == <<pc, cur, work, wlock, begun>>
concHistVars == <<log, returned, done, raced>>
rulesVars == <<storeVars, cacheVars, histVars, threadVars, concHistVars, fileVars, conns,
               storage_reads>>
bansVars == <<bans, bans_calls, bans_last, bans_ups>>
commandsVars == <<custom_commands, tree, registered, tasks, commands_begun,
                  interleaved>>
voiceVars == <<voice_clients, members, playing, loop_at, invocation, loop_left, played>>
botVars == <<bansVars, commandsVars, voiceVars>>

\* the three memos as one value
Memos == [config |-> config_cache, user |-> user_cache, users |-> users_cache]

\* a completed facade call: how is "write", "direct", "hit" or "miss"; before is
\* the memos at its entry; hits and misses are cache_info() of its own memo at
\* its return
Call(op, key, arg, result, how, info) ==
    [op |-> op, key |-> key, arg |-> arg, result |-> result, how |-> how,
     before |-> Memos, hits |-> info.hits, misses |-> info.misses]

NoCacheInfo == [hits |-> 0, misses |-> 0]

NoCall ==
    [op |-> "none", key |-> <<>>, arg |-> None, result |-> None, how |-> "none",
     before |-> [config |-> EmptyCache(ConfigKeys), user |-> EmptyCache(UserKeys),
                 users |-> EmptyCache(ListKeys)],
     hits |-> 0, misses |-> 0]

\* the tables Rules(db_path) creates
TableNames == {"channel_configs", "user_offenses"}

\* what a database file holds when Rules(db_path) opens it: nothing, or the rows
\* earlier update_config / update_user calls left in it
PersistedStores ==
    {[configs |-> <<>>, users |-> <<>>],
     [configs |-> <<ChannelConfig(1, 1, 3, "3pseat 3pfeet")>>,
      users |-> <<UserOffenses(1, 1, 1, 0, 0), UserOffenses(1, 2, 1, 0, 0)>>]}

\* the file after Rules(db_path): both tables exist
Constructed ==
    /\ schema = [name \in TableNames |-> 1]
    /\ opens = 1

\* the file before Rules(db_path): without rows it does not exist yet
NotConstructed ==
    /\ schema = [name \in TableNames |-> IF channel_configs = <<>> THEN 0 ELSE 1]
    /\ opens = 0

\* the rows of the file, the three new memos of the Rules object
StoreInit ==
    /\ \E store \in PersistedStores :
          /\ channel_configs = store.configs
          /\ user_offenses = store.users
    /\ config_cache = EmptyCache(ConfigKeys)
    /\ user_cache = EmptyCache(UserKeys)
    /\ users_cache = EmptyCache(ListKeys)
    /\ latest_config = [k \in ConfigKeys |-> SelectConfig(channel_configs, k)]
    /\ latest_user = [k \in UserKeys |-> SelectUser(user_offenses, k)]
    /\ calls = 0
    /\ prev = NoCall
    /\ last = NoCall
    /\ conns = {}
    /\ storage_reads = [config |-> 0, user |-> 0, users |-> 0]

\* a thread between two calls
Idle == [op |-> "none", key |-> <<>>, arg |-> None, tmp |-> None, floor |-> 0,
         idx |-> 0, conc |-> FALSE, over |-> FALSE]

\* no call has returned
NotDone == [t |-> 0, op |-> "none", key |-> <<>>, arg |-> None, result |-> None,
            how |-> "none", floor |-> 0, idx |-> 0, quiet |-> FALSE, over |-> FALSE]

\* a committed write: the table, the key, the row, and whether the call ran while
\* another write call of the same key was running
LogEntry(table, key, value, conc) ==
    [table |-> table, key |-> key, value |-> value, conc |-> conc]

\* the rows the file held at Rules(db_path) count as writes that returned
PersistedLog(configs, users) ==
    [i \in 1..Len(configs) |->
        LogEntry("configs", ConfigKey(configs[i]), configs[i], FALSE)]
    \o [i \in 1..Len(users) |->
        LogEntry("users", UserKey(users[i]), users[i], FALSE)]

\* no thread has called the facade yet
ThreadInit ==
    /\ pc = [t \in Threads |-> "idle"]
    /\ cur = [t \in Threads |-> Idle]
    /\ work = [t \in Threads |-> <<>>]
    /\ wlock = 0
    /\ begun = {}
    /\ log = PersistedLog(channel_configs, user_offenses)
    /\ returned = DOMAIN log
    /\ done = NotDone
    /\ raced = FALSE

Record(call) ==
    /\ calls' = calls + 1
    /\ prev' = last
    /\ last' = call
    /\ UNCHANGED <<threadVars, concHistVars, fileVars, botVars, conns>>

(* ------------------------------------------------------------------ *)
(* Rules facade, one caller: a call runs from entry to return          *)
(* ------------------------------------------------------------------ *)

\* Rules.update_config(config): delete + insert in one transaction, then
\* get_config_cached.cache_clear()
update_config(config) ==
    /\ calls < MaxCalls
    /\ channel_configs' = Committed(channel_configs, PutConfig(channel_configs, config))
    /\ config_cache' = CacheClear(config_cache)
    /\ latest_config' = [latest_config EXCEPT ![ConfigKey(config)] = config]
    /\ Record(Call("update_config", ConfigKey(config), config, None, "write",
                   NoCacheInfo))
    /\ UNCHANGED <<user_offenses, user_cache, users_cache, latest_user, storage_reads>>

\* (variant) an update_user that clears the memo of get_user_cached only
update_user_keeps_lists(user) ==
    /\ calls < MaxCalls
    /\ user_offenses' = Committed(user_offenses, PutUser(user_offenses, user))
    /\ user_cache' = CacheClear(user_cache)
    /\ latest_user' = [latest_user EXCEPT ![UserKey(user)] = user]
    /\ Record(Call("update_user", UserKey(user), user, None, "write", NoCacheInfo))
    /\ UNCHANGED <<channel_configs, config_cache, users_cache, latest_config,
                   storage_reads>>

\* Rules.update_user(user): delete + insert in one transaction, then
\* get_user_cached.cache_clear() and get_users_cached.cache_clear()
update_user(user) ==
    /\ calls < MaxCalls
    /\ user_offenses' = Committed(user_offenses, PutUser(user_offenses, user))
    /\ user_cache' = CacheClear(user_cache)
    /\ users_cache' = CacheClear(users_cache)
    /\ latest_user' = [latest_user EXCEPT ![UserKey(user)] = user]
    /\ Record(Call("update_user", UserKey(user), user, None, "write", NoCacheInfo))
    /\ UNCHANGED <<channel_configs, config_cache, latest_config, storage_reads>>

\* Rules.get_config(guild_id, channel_id): the uncached lookup
get_config(key) ==
    /\ calls < MaxCalls
    /\ Record(Call("get_config", key, None, SelectConfig(channel_configs, key),
                   "direct", NoCacheInfo))
    /\ UNCHANGED <<storeVars, cacheVars, latest_config, latest_user, storage_reads>>

\* Rules.get_user(guild_id, channel_id, user_id): the uncached lookup
get_user(key) ==
    /\ calls < MaxCalls
    /\ Record(Call("get_user", key, None, SelectUser(user_offenses, key),
                   "direct", NoCacheInfo))
    /\ UNCHANGED <<storeVars, cacheVars, latest_config, latest_user, storage_reads>>

\* Rules.get_users(guild_id, channel_id): the uncached listing
get_users(lkey) ==
    /\ calls < MaxCalls
    /\ Record(Call("get_users", lkey, None, SelectUsers(user_offenses, lkey),
                   "direct", NoCacheInfo))
    /\ UNCHANGED <<storeVars, cacheVars, latest_config, latest_user, storage_reads>>

\* Rules.get_config_cached(guild_id, channel_id)
get_config_cached(key) ==
    /\ calls < MaxCalls
    /\ IF Cached(config_cache, key)
       THEN /\ config_cache' = CacheHit(config_cache)
            /\ Record(Call("get_config_cached", key, None,
                           CachedValue(config_cache, key), "hit", config_cache'))
            /\ UNCHANGED storage_reads
       ELSE /\ config_cache' =
                  CacheStore(CacheMiss(config_cache), key,
                             SelectConfig(channel_configs, key))
            /\ Record(Call("get_config_cached", key, None,
                           SelectConfig(channel_configs, key), "miss", config_cache'))
            /\ storage_reads' = [storage_reads EXCEPT !.config = @ + 1]
    /\ UNCHANGED <<storeVars, user_cache, users_cache, latest_config, latest_user>>

\* Rules.get_user_cached(guild_id, channel_id, user_id)
get_user_cached(key) ==
    /\ calls < MaxCalls
    /\ IF Cached(user_cache, key)
       THEN /\ user_cache' = CacheHit(user_cache)
            /\ Record(Call("get_user_cached", key, None,
                           CachedValue(user_cache, key), "hit", user_cache'))
            /\ UNCHANGED storage_reads
       ELSE /\ user_cache' =
                  CacheStore(CacheMiss(user_cache), key,
                             SelectUser(user_offenses, key))
            /\ Record(Call("get_user_cached", key, None,
                           SelectUser(user_offenses, key), "miss", user_cache'))
            /\ storage_reads' = [storage_reads EXCEPT !.user = @ + 1]
    /\ UNCHANGED <<storeVars, config_cache, users_cache, latest_config, latest_user>>

\* Rules.get_users_cached(guild_id, channel_id)
get_users_cached(lkey) ==
    /\ calls < MaxCalls
    /\ IF Cached(users_cache, lkey)
       THEN /\ users_cache' = CacheHit(users_cache)
            /\ Record(Call("get_users_cached", lkey, None,
                           CachedValue(users_cache, lkey), "hit", users_cache'))
            /\ UNCHANGED storage_reads
       ELSE /\ users_cache' =
                  CacheStore(CacheMiss(users_cache), lkey,
                             SelectUsers(user_offenses, lkey))
            /\ Record(Call("get_users_cached", lkey, None,
                           SelectUsers(user_offenses, lkey), "miss", users_cache'))
            /\ storage_reads' = [storage_reads EXCEPT !.users = @ + 1]
    /\ UNCHANGED <<storeVars, config_cache, user_cache, latest_config, latest_user>>

(* ------------------------------------------------------------------ *)
(* Rules(db_path) on a file that may exist already                     *)
(* ------------------------------------------------------------------ *)

\* (variant) a schema creation that drops the table and creates it again
CreateTableAnew(sch, name) == [sch EXCEPT ![name] = @ + 1]

\* create_table(db, name, values): CREATE TABLE IF NOT EXISTS
CreateTable(sch, name) == [sch EXCEPT ![name] = IF @ = 0 THEN 1 ELSE @]

\* the rows of a table after the schema creation: a table just created is empty
RowsAfterCreate(rows, name) == IF schema'[name] # schema[name] THEN <<>> ELSE rows

\* Rules.__init__(db_path): connect(), create both tables.  The calls of the
\* model go through one Rules object; its memos are not those of another one
\* constructed on the path
Open ==
    /\ calls < MaxCalls
    /\ schema' = CreateTable(CreateTable(schema, "channel_configs"), "user_offenses")
    /\ channel_configs' = RowsAfterCreate(channel_configs, "channel_configs")
    /\ user_offenses' = RowsAfterCreate(user_offenses, "user_offenses")
    /\ opens' = opens + 1
    /\ calls' = calls + 1
    /\ prev' = last
    /\ last' = Call("open", <<>>, None, None, "open", NoCacheInfo)
    /\ UNCHANGED <<cacheVars, latest_config, latest_user, threadVars, concHistVars,
                   conns, storage_reads, botVars>>

(* ------------------------------------------------------------------ *)
(* Rules facade, several threads.  Each call opens its own connection  *)
(* (connect()); sqlite lets one connection at a time hold the write    *)
(* lock of the file, from its first writing statement to its commit,   *)
(* and shows the other connections the committed rows only.  A writer  *)
(* that finds the lock taken waits for it.                             *)
(* ------------------------------------------------------------------ *)

\* rows and reads the threads of ConcSpec use
ConcConfigInputs ==
    {ChannelConfig(1, 1, 3, "3pseat 3pfeet"), ChannelConfig(1, 1, 5, "3p")}
ConcUserInputs == {UserOffenses(1, 1, 1, 1, 1)}
ConcReads ==
    {<<"get_config_cached", <<1, 1>>>>, <<"get_config", <<1, 1>>>>,
     <<"get_user_cached", <<1, 1, 1>>>>}

Writes == {"update_config", "update_user"}

TableOf(op) == IF op \in ConfigReads \cup {"update_config"} THEN "configs" ELSE "users"

\* the lookup a read runs against the committed rows
StorageRead(op, key) ==
    CASE op \in ConfigReads -> SelectConfig(channel_configs, key)
      [] op \in UserReads -> SelectUser(user_offenses, key)
      [] op \in ListReads -> SelectUsers(user_offenses, key)

\* the memo behind a memoized read
MemoOf(op) ==
    CASE op = "get_config_cached" -> config_cache
      [] op = "get_user_cached" -> user_cache
      [] op = "get_users_cached" -> users_cache

\* the name of the memo in storage_reads
MemoName(op) ==
    CASE op = "get_config_cached" -> "config"
      [] op = "get_user_cached" -> "user"
      [] op = "get_users_cached" -> "users"

SetMemo(op, memo) ==
    /\ config_cache' = IF op = "get_config_cached" THEN memo ELSE config_cache
    /\ user_cache' = IF op = "get_user_cached" THEN memo ELSE user_cache
    /\ users_cache' = IF op = "get_users_cached" THEN memo ELSE users_cache

Max(S) == CHOOSE x \in S : \A y \in S : y <= x

\* the writes of (table, key), by their index in log; for the key of a list, the
\* writes of the users under it
WritesOf(table, key) ==
    {i \in DOMAIN log :
        /\ log[i].table = table
        /\ \/ log[i].key = key
           \/ table = "users" /\ <<log[i].key[1], log[i].key[2]>> = key}

\* the newest write of (table, key) whose call has returned; 0: none has
Floor(table, key) == Max({0} \cup (WritesOf(table, key) \cap returned))

\* the threads inside a write call of (op, key)
Writing(op, key) == {u \in Threads : cur[u].op = op /\ cur[u].key = key}

\* no thread is inside a write call
Quiet == \A u \in Threads : cur[u].op \notin Writes

\* connect(): the connection of a call can take the write lock of the file
\* when no other connection holds it
WriteLockFree(t) == wlock \in {0, t}

\* connect(): sqlite3.connect(db_path) gives the call a connection of its own
Connect(open, t) == open \cup {t}

\* (variant) a connect() that yields the connection without contextlib.closing
LeaveOpen(open, t) == open

\* connect(): contextlib.closing closes the connection however the block is left
Close(open, t) == open \ {t}

\* the threads that hold an uncommitted change of the rows the read looks up
Overwriting(op, key) ==
    {u \in Threads :
        /\ pc[u] \in {"deleted", "inserted"}
        /\ TableOf(cur[u].op) = TableOf(op)
        /\ IF op \in ListReads THEN ListKey(cur[u].arg) = key ELSE cur[u].key = key}

\* the threads are alike: they are numbered in the order of their first call
MayBegin(t) ==
    /\ pc[t] = "idle"
    /\ calls < MaxConcCalls
    /\ \A u \in Threads : u < t => u \in begun

Begin(t) ==
    /\ calls' = calls + 1
    /\ begun' = begun \cup {t}

\* entry of update_config(config) / update_user(user): connect()
BeginUpdate(t, op, rec) ==
    LET key == IF op = "update_config" THEN ConfigKey(rec) ELSE UserKey(rec) IN
    /\ MayBegin(t)
    /\ Begin(t)
    /\ pc' = [pc EXCEPT ![t] = "connected"]
    /\ cur' = [u \in Threads |->
                 IF u = t
                 THEN [op |-> op, key |-> key, arg |-> rec, tmp |-> None,
                       floor |-> 0, idx |-> 0, conc |-> Writing(op, key) # {},
                       over |-> FALSE]
                 ELSE IF u \in Writing(op, key) THEN [cur[u] EXCEPT !.conc = TRUE]
                 ELSE cur[u]]
    /\ log' = [i \in DOMAIN log |->
                 IF \E u \in Writing(op, key) : cur[u].idx = i
                 THEN [log[i] EXCEPT !.conc = TRUE] ELSE log[i]]
    /\ raced' = (raced \/ \E u \in Threads :
                              /\ pc[u] \in {"missed", "fetched"}
                              /\ TableOf(cur[u].op) = TableOf(op))
    /\ conns' = Connect(conns, t)
    /\ UNCHANGED <<storeVars, cacheVars, latest_config, latest_user, prev, last,
                   work, wlock, returned, done, fileVars, botVars, storage_reads>>

\* what the other connections see of the table after a statement of thread t
Visible(t) ==
    IF cur[t].op = "update_config"
    THEN /\ channel_configs' = Isolated(channel_configs, work'[t])
         /\ UNCHANGED user_offenses
    ELSE /\ user_offenses' = Isolated(user_offenses, work'[t])
         /\ UNCHANGED channel_configs

\* the DELETE of the call: the first writing statement takes the write lock
Delete(t) ==
    /\ pc[t] = "connected"
    /\ WriteLockFree(t)
    /\ wlock' = t
    /\ work' = [work EXCEPT ![t] =
                  IF cur[t].op = "update_config"
                  THEN DeleteConfigRows(channel_configs, cur[t].key)
                  ELSE DeleteUserRows(user_offenses, cur[t].key)]
    /\ pc' = [pc EXCEPT ![t] = "deleted"]
    /\ Visible(t)
    /\ UNCHANGED <<cacheVars, histVars, cur, begun, concHistVars,
                   fileVars, botVars, conns, storage_reads>>

\* the INSERT of the call
Insert(t) ==
    /\ pc[t] = "deleted"
    /\ work' = [work EXCEPT ![t] = InsertRow(work[t], cur[t].arg)]
    /\ pc' = [pc EXCEPT ![t] = "inserted"]
    /\ Visible(t)
    /\ UNCHANGED <<cacheVars, histVars, cur, wlock, begun, concHistVars,
                   fileVars, botVars, conns, storage_reads>>

\* leaving "with db:": the commit; the rows are visible to the other
\* connections and the write lock is free, the connection is still open
Commit(t) ==
    /\ pc[t] = "inserted"
    /\ IF cur[t].op = "update_config"
       THEN /\ channel_configs' = Committed(channel_configs, work[t])
            /\ latest_config' = [latest_config EXCEPT ![cur[t].key] = cur[t].arg]
            /\ UNCHANGED <<user_offenses, latest_user>>
       ELSE /\ user_offenses' = Committed(user_offenses, work[t])
            /\ latest_user' = [latest_user EXCEPT ![cur[t].key] = cur[t].arg]
            /\ UNCHANGED <<channel_configs, latest_config>>
    /\ wlock' = 0
    /\ work' = [work EXCEPT ![t] = <<>>]
    /\ log' = Append(log, LogEntry(TableOf(cur[t].op), cur[t].key, cur[t].arg,
                                   cur[t].conc))
    /\ cur' = [cur EXCEPT ![t].idx = Len(log) + 1]
    /\ pc' = [pc EXCEPT ![t] = "closing"]
    /\ UNCHANGED <<cacheVars, calls, prev, last, begun, returned, done, raced,
                   fileVars, botVars, conns, storage_reads>>

\* leaving connect() after the commit: contextlib.closing closes the connection
CloseCommitted(t) ==
    /\ pc[t] = "closing"
    /\ pc' = [pc EXCEPT ![t] = "committed"]
    /\ conns' = Close(conns, t)
    /\ UNCHANGED <<storeVars, cacheVars, histVars, cur, work, wlock, begun,
                   concHistVars, fileVars, botVars, storage_reads>>

\* return of a write call
ReturnWrite(t) ==
    /\ pc' = [pc EXCEPT ![t] = "idle"]
    /\ cur' = [cur EXCEPT ![t] = Idle]
    /\ returned' = returned \cup {cur[t].idx}
    /\ done' = [t |-> t, op |-> cur[t].op, key |-> cur[t].key, arg |-> cur[t].arg,
                result |-> None, how |-> "write", floor |-> 0, idx |-> cur[t].idx,
                quiet |-> FALSE, over |-> FALSE]

\* update_config: get_config_cached.cache_clear(), return
ClearConfig(t) ==
    /\ pc[t] = "committed"
    /\ cur[t].op = "update_config"
    /\ config_cache' = CacheClear(config_cache)
    /\ ReturnWrite(t)
    /\ UNCHANGED <<storeVars, user_cache, users_cache, histVars, work, wlock, begun,
                   log, raced, fileVars, botVars, conns, storage_reads>>

\* update_user: get_user_cached.cache_clear()
ClearUser(t) ==
    /\ pc[t] = "committed"
    /\ cur[t].op = "update_user"
    /\ user_cache' = CacheClear(user_cache)
    /\ pc' = [pc EXCEPT ![t] = "cleared"]
    /\ UNCHANGED <<storeVars, config_cache, users_cache, histVars, cur, work, wlock,
                   begun, concHistVars, fileVars, botVars, conns, storage_reads>>

\* update_user: get_users_cached.cache_clear(), return
ClearUsers(t) ==
    /\ pc[t] = "cleared"
    /\ users_cache' = CacheClear(users_cache)
    /\ ReturnWrite(t)
    /\ UNCHANGED <<storeVars, config_cache, user_cache, histVars, work, wlock, begun,
                   log, raced, fileVars, botVars, conns, storage_reads>>

\* return of a read call; floor and quiet are of the moment it was issued, over
\* of the moment of its storage read
ReturnRead(t, op, key, result, how, floor, quiet, over) ==
    /\ pc' = [pc EXCEPT ![t] = "idle"]
    /\ cur' = [cur EXCEPT ![t] = Idle]
    /\ done' = [t |-> t, op |-> op, key |-> key, arg |-> None, result |-> result,
                how |-> how, floor |-> floor, idx |-> 0, quiet |-> quiet,
                over |-> over]

\* get_config(...) / get_user(...) / get_users(...): connect, SELECT, close
DirectRead(t, op, key) ==
    /\ MayBegin(t)
    /\ Begin(t)
    /\ ReturnRead(t, op, key, StorageRead(op, key), "direct",
                  Floor(TableOf(op), key), Quiet, Overwriting(op, key) # {})
    /\ conns' = Close(Connect(conns, t), t)
    /\ UNCHANGED <<storeVars, cacheVars, latest_config, latest_user, prev, last,
                   work, wlock, log, returned, raced, fileVars, botVars, storage_reads>>

\* entry of a memoized read: the memo is looked up; a hit returns at once, a
\* miss is counted and goes on to the wrapped read
Lookup(t, op, key) ==
    /\ MayBegin(t)
    /\ Begin(t)
    /\ IF Cached(MemoOf(op), key)
       THEN /\ SetMemo(op, CacheHit(MemoOf(op)))
            /\ ReturnRead(t, op, key, CachedValue(MemoOf(op), key), "hit",
                          Floor(TableOf(op), key), Quiet, FALSE)
            /\ UNCHANGED raced
       ELSE /\ SetMemo(op, CacheMiss(MemoOf(op)))
            /\ pc' = [pc EXCEPT ![t] = "missed"]
            /\ cur' = [cur EXCEPT ![t] =
                         [op |-> op, key |-> key, arg |-> None, tmp |-> None,
                          floor |-> Floor(TableOf(op), key), idx |-> 0,
                          conc |-> Quiet, over |-> FALSE]]
            /\ raced' = (raced \/ \E u \in Threads :
                                      /\ cur[u].op \in Writes
                                      /\ TableOf(cur[u].op) = TableOf(op))
            /\ UNCHANGED done
    /\ UNCHANGED <<storeVars, latest_config, latest_user, prev, last, work, wlock,
                   log, returned, fileVars, botVars, conns, storage_reads>>

\* the wrapped read of a miss: connect, SELECT, close
Fetch(t) ==
    /\ pc[t] = "missed"
    /\ cur' = [cur EXCEPT ![t].tmp = StorageRead(cur[t].op, cur[t].key),
                          ![t].over = Overwriting(cur[t].op, cur[t].key) # {}]
    /\ pc' = [pc EXCEPT ![t] = "fetched"]
    /\ conns' = Close(Connect(conns, t), t)
    /\ storage_reads' = [storage_reads EXCEPT ![MemoName(cur[t].op)] = @ + 1]
    /\ UNCHANGED <<storeVars, cacheVars, histVars, work, wlock, begun, concHistVars,
                   fileVars, botVars>>

\* the memo keeps what the wrapped read returned, and the call returns it
Store(t) ==
    /\ pc[t] = "fetched"
    /\ SetMemo(cur[t].op, CacheStore(MemoOf(cur[t].op), cur[t].key, cur[t].tmp))
    /\ ReturnRead(t, cur[t].op, cur[t].key, cur[t].tmp, "miss", cur[t].floor,
                  cur[t].conc, cur[t].over)
    /\ UNCHANGED <<storeVars, histVars, work, wlock, begun, log, returned, raced,
                   fileVars, botVars, conns, storage_reads>>

\* a statement of a write call, or its commit, raises (the file stays locked
\* beyond the busy timeout, the disk fails).  Before the call has written,
\* closing() closes the connection and the error reaches the caller.  After,
\* "with db:" rolls back first: the write lock is free and the connection is
\* still open.  cache_clear() is not run.  In done, over tells whether the call
\* had written
Fail(t) ==
    LET table == IF cur[t].op = "update_config" THEN channel_configs ELSE user_offenses
        written == IF pc[t] = "connected" THEN table ELSE work[t] IN
    /\ pc[t] \in {"connected", "deleted", "inserted"}
    /\ IF cur[t].op = "update_config"
       THEN /\ channel_configs' = Rollback(channel_configs, written)
            /\ UNCHANGED user_offenses
       ELSE /\ user_offenses' = Rollback(user_offenses, written)
            /\ UNCHANGED channel_configs
    /\ wlock' = IF wlock = t THEN 0 ELSE wlock
    /\ work' = [work EXCEPT ![t] = <<>>]
    /\ IF pc[t] = "connected"
       THEN /\ conns' = Close(conns, t)
            /\ pc' = [pc EXCEPT ![t] = "idle"]
            /\ cur' = [cur EXCEPT ![t] = Idle]
            /\ done' = [t |-> t, op |-> cur[t].op, key |-> cur[t].key,
                        arg |-> cur[t].arg, result |-> StorageUnavailable,
                        how |-> "error", floor |-> 0, idx |-> 0, quiet |-> FALSE,
                        over |-> FALSE]
       ELSE /\ pc' = [pc EXCEPT ![t] = "rolledback"]
            /\ UNCHANGED <<conns, cur, done>>
    /\ UNCHANGED <<cacheVars, histVars, begun, log, returned, raced, fileVars, botVars,
                   storage_reads>>

\* leaving connect() after the rollback: contextlib.closing closes the
\* connection, then the error reaches the caller
CloseFailed(t) ==
    /\ pc[t] = "rolledback"
    /\ conns' = Close(conns, t)
    /\ pc' = [pc EXCEPT ![t] = "idle"]
    /\ cur' = [cur EXCEPT ![t] = Idle]
    /\ done' = [t |-> t, op |-> cur[t].op, key |-> cur[t].key, arg |-> cur[t].arg,
                result |-> StorageUnavailable, how |-> "error", floor |-> 0,
                idx |-> 0, quiet |-> FALSE, over |-> TRUE]
    /\ UNCHANGED <<storeVars, cacheVars, histVars, work, wlock, begun, log, returned,
                   raced, fileVars, botVars, storage_reads>>

\* rows and reads the threads of FaultSpec use: every read looks up a key the
\* writes overwrite, and one write is of a key that has no row
FaultConfigInputs == {ChannelConfig(1, 1, 5, "3p"), ChannelConfig(1, 2, 5, "3p")}
FaultUserInputs == {UserOffenses(1, 1, 1, 1, 1)}
FaultReads ==
    {<<"get_config_cached", <<1, 1>>>>, <<"get_users", <<1, 1>>>>}

FaultNext ==
    \E t \in Threads :
        \/ \E config \in FaultConfigInputs : BeginUpdate(t, "update_config", config)
        \/ \E user \in FaultUserInputs : BeginUpdate(t, "update_user", user)
        \/ Delete(t)
        \/ Insert(t)
        \/ Commit(t)
        \/ CloseCommitted(t)
        \/ Fail(t)
        \/ CloseFailed(t)
        \/ ClearConfig(t)
        \/ ClearUser(t)
        \/ ClearUsers(t)
        \/ \E r \in FaultReads : r[1] \notin CachedReads /\ DirectRead(t, r[1], r[2])
        \/ \E r \in FaultReads : r[1] \in CachedReads /\ Lookup(t, r[1], r[2])
        \/ Fetch(t)
        \/ Store(t)

ConcNext ==
    \E t \in Threads :
        \/ \E config \in ConcConfigInputs : BeginUpdate(t, "update_config", config)
        \/ \E user \in ConcUserInputs : BeginUpdate(t, "update_user", user)
        \/ Delete(t)
        \/ Insert(t)
        \/ Commit(t)
        \/ CloseCommitted(t)
        \/ ClearConfig(t)
        \/ ClearUser(t)
        \/ ClearUsers(t)
        \/ \E r \in ConcReads : r[1] \notin CachedReads /\ DirectRead(t, r[1], r[2])
        \/ \E r \in ConcReads : r[1] \in CachedReads /\ Lookup(t, r[1], r[2])
        \/ Fetch(t)
        \/ Store(t)

\* the rules store while the bot's own state is what a specification is about:
\* a Rules object on a file without rows, no call made
RulesIdle == StoreInit /\ Constructed /\ ThreadInit /\ channel_configs = <<>>

(* ------------------------------------------------------------------ *)
(* Bans (utils.py): the offence counts of 3pseatBans.json, one TinyDB   *)
(* table per server, one document {name, count} per entry               *)
(* ------------------------------------------------------------------ *)

\* bound on the Bans calls of a behaviour
MaxBansCalls == 3

\* a name is the sequence of its characters
Servers == {"g1", "g2"}
Names == {<<"a">>, <<"a", "b">>, <<"a", ".">>, <<"b">>}

\* the entry that holds the count of the whole server: the literal 'server'
ServerEntry == <<"s", "e", "r", "v", "e", "r">>

\* re.match(pattern, value) for a pattern of literal characters and '.': the
\* pattern is matched at the start of value, a '.' matches any one character,
\* and what follows the match in value is not looked at
RECURSIVE ReMatch(_, _)
ReMatch(pattern, value) ==
    IF pattern = <<>> THEN TRUE
    ELSE IF value = <<>> THEN FALSE
    ELSE /\ Head(pattern) \in {".", Head(value)}
         /\ ReMatch(Tail(pattern), Tail(value))

\* db.search(Query().name.matches(regex)): the documents whose name the regex
\* matches, in the order of the table
SearchMatches(table, regex) ==
    SelectSeq(table, LAMBDA doc : ReMatch(regex, doc.name))

\* db.search(Query().name == name)
SearchEquals(table, name) ==
    SelectSeq(table, LAMBDA doc : doc.name = name)

\* db.insert({'name': name, 'count': 0})
InsertEntry(table, name) == Append(table, [name |-> name, count |-> 0])

\* db.update({'count': val}, Query().name == name): every document of that name
UpdateCount(table, val, name) ==
    [i \in DOMAIN table |->
        IF table[i].name = name THEN [table[i] EXCEPT !.count = val] ELSE table[i]]

\* the table after the first two lines of check: name is inserted when the
\* search by matches() finds nothing
CheckInsert(table, name) ==
    IF SearchMatches(table, name) = <<>> THEN InsertEntry(table, name) ELSE table

\* result.pop(0) of check raises IndexError: the search by == found nothing
CheckRaises(table, name) == SearchEquals(CheckInsert(table, name), name) = <<>>

\* what check returns when it returns: the count of the first document found
CheckCount(table, name) == SearchEquals(CheckInsert(table, name), name)[1].count

\* how a Bans call ended: the table it left, the exception it raised ("" for
\* none) and the value it returned (0 when it raised or returns nothing)
Ended(table, raised, result) == [table |-> table, raised |-> raised, result |-> result]

\* Bans.check(server, name) on the table of the server
Check(table, name) ==
    IF CheckRaises(table, name)
    THEN Ended(CheckInsert(table, name), "IndexError", 0)
    ELSE Ended(CheckInsert(table, name), "", CheckCount(table, name))

\* Bans.up(server, name) on the table of the server: both updates are made
\* under the condition name == name, the second with the count of 'server'
Up(table, name) ==
    LET first == Check(table, name)
        named == UpdateCount(first.table, first.result + 1, name)
        second == Check(named, ServerEntry)
    IN  IF first.raised # "" THEN first
        ELSE IF second.raised # "" THEN second
        ELSE Ended(UpdateCount(second.table, second.result + 1, name), "",
                   second.result + 1)

\* Bans.clear(server, name) on the table of the server
Clear(table, name) ==
    LET first == Check(table, name)
    IN  IF first.raised # "" THEN first
        ELSE Ended(UpdateCount(first.table, 0, name), "", 0)

\* a Bans call that has ended; before is the table at its entry
BansCall(op, server, name, before, ended) ==
    [op |-> op, server |-> server, name |-> name, before |-> before,
     raised |-> ended.raised, result |-> ended.result]

NoBansCall == BansCall("none", "", <<>>, <<>>, Ended(<<>>, "", 0))

\* a new 3pseatBans.json: no table holds a document
BansIdle ==
    /\ bans = [server \in Servers |-> <<>>]
    /\ bans_calls = 0
    /\ bans_last = NoBansCall
    /\ bans_ups = [server \in Servers |-> [name \in Names |-> 0]]

\* a Bans call from entry to return or raise
BansStep(op, server, name, ended) ==
    /\ bans_calls < MaxBansCalls
    /\ bans' = [bans EXCEPT ![server] = ended.table]
    /\ bans_calls' = bans_calls + 1
    /\ bans_last' = BansCall(op, server, name, bans[server], ended)
    /\ UNCHANGED <<rulesVars, commandsVars, voiceVars>>

check(server, name) ==
    /\ BansStep("check", server, name, Check(bans[server], name))
    /\ UNCHANGED bans_ups

up(server, name) ==
    /\ BansStep("up", server, name, Up(bans[server], name))
    /\ bans_ups' = IF Up(bans[server], name).raised # "" THEN bans_ups
                   ELSE [bans_ups EXCEPT ![server][name] = @ + 1]

clear(server, name) ==
    /\ BansStep("clear", server, name, Clear(bans[server], name))
    /\ bans_ups' = IF Clear(bans[server], name).raised # "" THEN bans_ups
                   ELSE [bans_ups EXCEPT ![server][name] = 0]

BansNext ==
    \/ \E server \in Servers, name \in Names : check(server, name)
    \/ \E server \in Servers, name \in Names : up(server, name)
    \/ \E server \in Servers, name \in Names : clear(server, name)

(* ------------------------------------------------------------------ *)
(* CustomCommands (commands/custom.py): the table custom_commands, the  *)
(* command tree of the bot, and the create and remove commands, each a  *)
(* task that other tasks interleave with where it awaits                *)
(* ------------------------------------------------------------------ *)

\* bound on the create and remove commands of a behaviour
MaxCommands == 3

\* the tasks that run commands at the same time
Tasks == {1, 2}

Guilds == {1, 2}

LowerCase == {"a", "b", "c", "d", "e", "f", "g", "h", "i", "j", "k", "l", "m", "n", "o", "p", "q", "r", "s", "t", "u", "v", "w", "x", "y", "z"}
UpperCase == {"A", "B", "C", "D", "E", "F", "G", "H", "I", "J", "K", "L", "M", "N", "O", "P", "Q", "R", "S", "T", "U", "V", "W", "X", "Y", "Z"}
Digits == {"0", "1", "2", "3", "4", "5", "6", "7", "8", "9"}

\* the names given to create and remove, as sequences of characters
CommandNames == {<<"a">>, <<"A">>, <<"a", "!">>, <<>>, [i \in 1..33 |-> "a"]}

\* len(re.findall(r'[^A-Za-z0-9]', name)) > 0 or len(name) == 0
InvalidName(name) ==
    \/ \E i \in DOMAIN name : name[i] \notin LowerCase \cup UpperCase \cup Digits
    \/ Len(name) = 0

\* app_commands.Command(name=...) raises ValueError for a name that is not all
\* lower-case or has more than 32 characters
Unregistrable(name) ==
    \/ \E i \in DOMAIN name : name[i] \in UpperCase
    \/ Len(name) > 32

\* a row of custom_commands: the columns that select rows
CustomCommand(name, guild_id) == [name |-> name, guild_id |-> guild_id]

\* INSERT INTO custom_commands VALUES (...): the table has no key
add_to_db(rows, command) == Append(rows, command)

\* SELECT * FROM custom_commands [WHERE guild = :guild], 0 for guild_id is None
list_in_db(rows, guild_id) ==
    SelectSeq(rows, LAMBDA row : guild_id = 0 \/ row.guild_id = guild_id)

\* DELETE FROM custom_commands WHERE guild = :guild AND name = :name
remove_from_db(rows, name, guild_id) ==
    SelectSeq(rows, LAMBDA row : ~(row.guild_id = guild_id /\ row.name = name))

\* bot.tree.remove_command(name, guild=guild)
remove_command(commands, name, guild_id) ==
    [commands EXCEPT ![guild_id] = @ \ {name}]

\* bot.tree.add_command(command_, guild=guild)
add_command(commands, name, guild_id) ==
    [commands EXCEPT ![guild_id] = @ \cup {name}]

\* register(command) up to its await of bot.tree.sync
register(commands, command) ==
    add_command(remove_command(commands, command.name, command.guild_id),
                command.name, command.guild_id)

\* unregister(name, guild) up to its await of bot.tree.sync
unregister(commands, name, guild_id) == remove_command(commands, name, guild_id)

\* register_all(): register(command, sync=False) for the rows in their order;
\* the loop ends at the first row whose command cannot be made, with the
\* ValueError of register
RECURSIVE RegisterAll(_, _)
RegisterAll(commands, rows) ==
    IF rows = <<>> THEN commands
    ELSE IF Unregistrable(Head(rows).name) THEN commands
    ELSE RegisterAll(register(commands, Head(rows)), Tail(rows))

\* register_all() raises: some row has a name the library refuses
RegisterAllRaises(rows) == \E i \in DOMAIN rows : Unregistrable(rows[i].name)

\* the names custom_commands holds for a guild
StoredNames(guild_id) ==
    {list_in_db(custom_commands, guild_id)[i].name :
        i \in DOMAIN list_in_db(custom_commands, guild_id)}

\* a task that runs no command
NoTask == [op |-> "none", name |-> <<>>, guild_id |-> 0, pc |-> "idle"]

Task(op, name, guild_id, at) == [op |-> op, name |-> name, guild_id |-> guild_id, pc |-> at]

\* the tables a bot that starts can find: rows that earlier create commands
\* left, those of a create that raised in register included
PersistedCommands ==
    {<<>>, <<CustomCommand(<<"a">>, 1)>>,
     <<CustomCommand(<<"A">>, 1), CustomCommand(<<"a">>, 1)>>}

\* CustomCommands(bot, db_path): the tree holds no custom command
CommandsStart ==
    /\ tree = [guild_id \in Guilds |-> {}]
    /\ registered = "no"
    /\ tasks = [t \in Tasks |-> NoTask]
    /\ commands_begun = 0
    /\ interleaved = FALSE

CommandsIdle == custom_commands = <<>> /\ CommandsStart

\* a step of task t: whether another task is at an await is noted
TaskStep(t) ==
    /\ interleaved' = (interleaved \/ \E other \in Tasks \ {t} : tasks[other].pc # "idle")
    /\ UNCHANGED <<rulesVars, bansVars, voiceVars, registered>>

\* register_all() after the object is made: it returns, or raises at a row
\* whose command cannot be made
register_all ==
    /\ registered = "no"
    /\ registered' = IF RegisterAllRaises(list_in_db(custom_commands, 0))
                     THEN "raised" ELSE "returned"
    /\ tree' = RegisterAll(tree, list_in_db(custom_commands, 0))
    /\ UNCHANGED <<custom_commands, tasks, commands_begun, interleaved>>
    /\ UNCHANGED <<rulesVars, bansVars, voiceVars>>

\* create, to its first await: a name it refuses is answered and the command
\* is over, any other is deferred
create(t, name, guild_id) ==
    /\ registered # "no"
    /\ commands_begun < MaxCommands
    /\ tasks[t].pc = "idle"
    /\ commands_begun' = commands_begun + 1
    /\ tasks' = IF InvalidName(name) THEN tasks
                ELSE [tasks EXCEPT ![t] = Task("create", name, guild_id, "defer")]
    /\ TaskStep(t)
    /\ UNCHANGED <<custom_commands, tree>>

\* create, from defer to the await of tree.sync in register: the row is
\* inserted, then the command is made (which raises for a name the library
\* refuses) and put in the tree in place of one of the same name
create_register(t) ==
    /\ tasks[t].op = "create"
    /\ tasks[t].pc = "defer"
    /\ custom_commands' =
          add_to_db(custom_commands, CustomCommand(tasks[t].name, tasks[t].guild_id))
    /\ IF Unregistrable(tasks[t].name)
       THEN /\ tasks' = [tasks EXCEPT ![t] = NoTask]
            /\ UNCHANGED tree
       ELSE /\ tree' = register(tree, CustomCommand(tasks[t].name, tasks[t].guild_id))
            /\ tasks' = [tasks EXCEPT ![t].pc = "sync"]
    /\ TaskStep(t)
    /\ UNCHANGED commands_begun

\* remove, to its first await
remove(t, name, guild_id) ==
    /\ registered # "no"
    /\ commands_begun < MaxCommands
    /\ tasks[t].pc = "idle"
    /\ commands_begun' = commands_begun + 1
    /\ tasks' = [tasks EXCEPT ![t] = Task("remove", name, guild_id, "defer")]
    /\ TaskStep(t)
    /\ UNCHANGED <<custom_commands, tree>>

\* remove, from defer to the await of tree.sync in unregister
remove_unregister(t) ==
    /\ tasks[t].op = "remove"
    /\ tasks[t].pc = "defer"
    /\ custom_commands' =
          remove_from_db(custom_commands, tasks[t].name, tasks[t].guild_id)
    /\ tree' = unregister(tree, tasks[t].name, tasks[t].guild_id)
    /\ tasks' = [tasks EXCEPT ![t].pc = "sync"]
    /\ TaskStep(t)
    /\ UNCHANGED commands_begun

\* create or remove, from the return of tree.sync to the await of followup.send
followup(t) ==
    /\ tasks[t].pc = "sync"
    /\ tasks' = [tasks EXCEPT ![t].pc = "followup"]
    /\ TaskStep(t)
    /\ UNCHANGED <<custom_commands, tree, commands_begun>>

\* create or remove, from the return of followup.send to its end
complete(t) ==
    /\ tasks[t].pc = "followup"
    /\ tasks' = [tasks EXCEPT ![t] = NoTask]
    /\ TaskStep(t)
    /\ UNCHANGED <<custom_commands, tree, commands_begun>>

CommandsNext ==
    \/ register_all
    \/ \E t \in Tasks, name \in CommandNames, guild_id \in Guilds : create(t, name, guild_id)
    \/ \E t \in Tasks : create_register(t)
    \/ \E t \in Tasks, name \in CommandNames, guild_id \in Guilds : remove(t, name, guild_id)
    \/ \E t \in Tasks : remove_unregister(t)
    \/ \E t \in Tasks : followup(t)
    \/ \E t \in Tasks : complete(t)

(* ------------------------------------------------------------------ *)
(* Voice (cogs/voice.py): the voice clients of the bot, one voice       *)
(* channel per guild, the commands join, leave and play, and the loop   *)
(* leave_on_empty                                                       *)
(* ------------------------------------------------------------------ *)

\* bound on the users in a voice channel
MaxMembers == 2

\* the guild has a voice client: ctx.voice_client is not None
Connected(clients, guild_id) == \E i \in DOMAIN clients : clients[i] = guild_id

\* len(voice_client.channel.members): the users of the channel and the bot
ChannelMembers(guild_id) ==
    members[guild_id] + (IF Connected(voice_clients, guild_id) THEN 1 ELSE 0)

\* channel.connect(): the new client is the last of bot.voice_clients
ConnectClient(clients, guild_id) == Append(clients, guild_id)

\* voice_client.disconnect(): the client leaves bot.voice_clients
DisconnectClient(clients, guild_id) == SelectSeq(clients, LAMBDA g : g # guild_id)

\* the clients leave_on_empty looks at: bot.voice_clients[0]
FirstClient(clients) == IF Len(clients) > 0 THEN {clients[1]} ELSE {}

\* the play commands that can be at the await of ensure_voice at the same time
PlayCommands == {1, 2}

\* a play command that is not between ensure_voice and its body
NoInvocation == [guild_id |-> 0, sound |-> FALSE, ensured |-> "none"]

\* a play command that ended: what ensure_voice did, whether the body reached
\* ctx.voice_client.play, whether the guild had a client then, whether that
\* client was playing then
Played(guild_id, ensured, reached, connected, busy) ==
    [guild_id |-> guild_id, ensured |-> ensured, reached |-> reached,
     connected |-> connected, busy |-> busy]

NoPlayed == Played(0, "none", FALSE, FALSE, FALSE)

NoLeft == [guild_id |-> 0, members |-> 0]

\* Voice(bot): no client, the loop started
VoiceIdle ==
    /\ voice_clients = <<>>
    /\ members = [guild_id \in Guilds |-> 0]
    /\ playing = [guild_id \in Guilds |-> FALSE]
    /\ loop_at = "sleep"
    /\ invocation = [p \in PlayCommands |-> NoInvocation]
    /\ loop_left = NoLeft
    /\ played = NoPlayed

\* a user enters the voice channel of the guild
member_joins(guild_id) ==
    /\ members[guild_id] < MaxMembers
    /\ members' = [members EXCEPT ![guild_id] = @ + 1]
    /\ UNCHANGED <<voice_clients, playing, loop_at, invocation, loop_left, played>>
    /\ UNCHANGED <<rulesVars, bansVars, commandsVars>>

\* a user leaves the voice channel of the guild
member_leaves(guild_id) ==
    /\ members[guild_id] > 0
    /\ members' = [members EXCEPT ![guild_id] = @ - 1]
    /\ UNCHANGED <<voice_clients, playing, loop_at, invocation, loop_left, played>>
    /\ UNCHANGED <<rulesVars, bansVars, commandsVars>>

\* the join command of an author in the voice channel of the guild (one not in
\* a voice channel is answered and nothing changes; a client that exists is
\* moved to the channel it is in)
join(guild_id) ==
    /\ members[guild_id] > 0
    /\ ~Connected(voice_clients, guild_id)
    /\ voice_clients' = ConnectClient(voice_clients, guild_id)
    /\ UNCHANGED <<members, playing, loop_at, invocation, loop_left, played>>
    /\ UNCHANGED <<rulesVars, bansVars, commandsVars>>

\* the leave command
leave(guild_id) ==
    /\ Connected(voice_clients, guild_id)
    /\ voice_clients' = DisconnectClient(voice_clients, guild_id)
    /\ playing' = [playing EXCEPT ![guild_id] = FALSE]
    /\ UNCHANGED <<members, loop_at, invocation, loop_left, played>>
    /\ UNCHANGED <<rulesVars, bansVars, commandsVars>>

\* the source a client plays ends (after=None: nothing is called)
finish(guild_id) ==
    /\ playing[guild_id]
    /\ playing' = [playing EXCEPT ![guild_id] = FALSE]
    /\ UNCHANGED <<voice_clients, members, loop_at, invocation, loop_left, played>>
    /\ UNCHANGED <<rulesVars, bansVars, commandsVars>>

\* what ensure_voice does: "connected" (no client, the author is in a voice
\* channel), "refused" (no client, the author is in none: a message is sent and
\* nothing is raised), "stopped" (the client was playing), "ready"
Ensured(guild_id, author_voice) ==
    IF ~Connected(voice_clients, guild_id)
    THEN IF author_voice THEN "connected" ELSE "refused"
    ELSE IF playing[guild_id] THEN "stopped" ELSE "ready"

\* the body of the play command: a sound that is not found is answered; a
\* sound that is found is played by ctx.voice_client.play, which raises
\* AttributeError on None, raises ClientException on a client that is playing
\* and starts the source on any other.  pending is the play commands that stay
\* at their await
Body(guild_id, sound, ensured, clients, busy, pending) ==
    /\ played' = Played(guild_id, ensured, sound, Connected(clients, guild_id),
                        busy[guild_id])
    /\ playing' = IF sound /\ Connected(clients, guild_id)
                  THEN [busy EXCEPT ![guild_id] = TRUE]
                  ELSE busy
    /\ invocation' = pending

\* the play command p, from ensure_voice (run before the body) to its first
\* await: connect() and the message are awaited, and the body runs after them;
\* stop() is not, and the body runs at once.  Other play commands may be at
\* their await; the commands are alike and take the first free number
ensure_voice(p, guild_id, author_voice, sound) ==
    /\ invocation[p] = NoInvocation
    /\ \A q \in PlayCommands : q < p => invocation[q] # NoInvocation
    /\ author_voice => members[guild_id] > 0
    /\ LET ensured == Ensured(guild_id, author_voice)
           awaiting == [invocation EXCEPT ![p] = [guild_id |-> guild_id,
                                                  sound |-> sound,
                                                  ensured |-> ensured]]
       IN  CASE ensured = "connected" ->
                    /\ voice_clients' = ConnectClient(voice_clients, guild_id)
                    /\ invocation' = awaiting
                    /\ UNCHANGED <<playing, played>>
             [] ensured = "refused" ->
                    /\ invocation' = awaiting
                    /\ UNCHANGED <<voice_clients, playing, played>>
             [] ensured = "stopped" ->
                    /\ Body(guild_id, sound, ensured, voice_clients,
                            [playing EXCEPT ![guild_id] = FALSE], invocation)
                    /\ UNCHANGED voice_clients
             [] ensured = "ready" ->
                    /\ Body(guild_id, sound, ensured, voice_clients, playing,
                            invocation)
                    /\ UNCHANGED voice_clients
    /\ UNCHANGED <<members, loop_at, loop_left>>
    /\ UNCHANGED <<rulesVars, bansVars, commandsVars>>

\* the body of the play command p after the await of ensure_voice
play(p) ==
    /\ invocation[p] # NoInvocation
    /\ Body(invocation[p].guild_id, invocation[p].sound, invocation[p].ensured,
            voice_clients, playing, [invocation EXCEPT ![p] = NoInvocation])
    /\ UNCHANGED <<voice_clients, members, loop_at, loop_left>>
    /\ UNCHANGED <<rulesVars, bansVars, commandsVars>>

\* tasks.loop(seconds=30.0): the sleep between two runs of the body ends
wake ==
    /\ loop_at = "sleep"
    /\ loop_at' = "body"
    /\ UNCHANGED <<voice_clients, members, playing, invocation, loop_left, played>>
    /\ UNCHANGED <<rulesVars, bansVars, commandsVars>>

\* the body of leave_on_empty: the first client is disconnected when its
\* channel has at most one member
leave_on_empty ==
    /\ loop_at = "body"
    /\ loop_at' = "sleep"
    /\ LET empty == {guild_id \in FirstClient(voice_clients) :
                        ChannelMembers(guild_id) <= 1}
       IN  IF empty = {}
           THEN UNCHANGED <<voice_clients, playing, loop_left>>
           ELSE LET guild_id == CHOOSE g \in empty : TRUE
                IN  /\ voice_clients' = DisconnectClient(voice_clients, guild_id)
                    /\ playing' = [playing EXCEPT ![guild_id] = FALSE]
                    /\ loop_left' = [guild_id |-> guild_id,
                                     members |-> ChannelMembers(guild_id)]
    /\ UNCHANGED <<members, invocation, played>>
    /\ UNCHANGED <<rulesVars, bansVars, commandsVars>>

VoiceNext ==
    \/ \E guild_id \in Guilds : member_joins(guild_id)
    \/ \E guild_id \in Guilds : member_leaves(guild_id)
    \/ \E guild_id \in Guilds : join(guild_id)
    \/ \E guild_id \in Guilds : leave(guild_id)
    \/ \E guild_id \in Guilds : finish(guild_id)
    \/ \E p \in PlayCommands, guild_id \in Guilds, author_voice \in BOOLEAN,
          sound \in BOOLEAN : ensure_voice(p, guild_id, author_voice, sound)
    \/ \E p \in PlayCommands : play(p)
    \/ wake
    \/ leave_on_empty

\* the bot's own state while the rules store is what a specification is about
BotIdle == BansIdle /\ CommandsIdle /\ VoiceIdle

vars == <<rulesVars, botVars>>

Init == StoreInit /\ Constructed /\ ThreadInit /\ BotIdle

Next ==
    \/ \E config \in ConfigInputs : update_config(config)
    \/ \E user \in UserInputs : update_user(user)
    \/ \E key \in ConfigKeys : get_config(key)
    \/ \E key \in UserKeys : get_user(key)
    \/ \E lkey \in ListKeys : get_users(lkey)
    \/ \E key \in ConfigKeys : get_config_cached(key)
    \/ \E key \in UserKeys : get_user_cached(key)
    \/ \E lkey \in ListKeys : get_users_cached(lkey)

Spec == Init /\ [][Next]_vars

\* rows and keys the caller of OpenSpec uses
OpenConfigInputs == {ChannelConfig(1, 1, 5, "3p"), ChannelConfig(1, 2, 3, "3p")}
OpenUserInputs == {UserOffenses(1, 1, 2, 1, 1)}
OpenConfigKeys == {<<1, 1>>, <<1, 2>>}
OpenListKeys == {<<1, 1>>}

OpenInit == StoreInit /\ NotConstructed /\ ThreadInit /\ BotIdle

\* a caller that constructs Rules on the path, any number of times, and calls
\* the facade once it has
OpenNext ==
    \/ Open
    \/ opens > 0 /\ \E config \in OpenConfigInputs : update_config(config)
    \/ opens > 0 /\ \E user \in OpenUserInputs : update_user(user)
    \/ opens > 0 /\ \E key \in OpenConfigKeys : get_config(key)
    \/ opens > 0 /\ \E lkey \in OpenListKeys : get_users_cached(lkey)

OpenSpec == OpenInit /\ [][OpenNext]_vars

\* the threads start on a file that holds rows
ConcInit == Init /\ channel_configs # <<>>

ConcSpec == ConcInit /\ [][ConcNext]_vars

\* the threads of ConcSpec, whose write calls can fail
FaultSpec == ConcInit /\ [][FaultNext]_vars

\* the calls of Bans on a new 3pseatBans.json
BansInit == RulesIdle /\ BotIdle

BansSpec == BansInit /\ [][BansNext]_vars

\* a bot that starts on the table earlier runs left, then commands of its guilds
CommandsInit ==
    /\ RulesIdle
    /\ BansIdle
    /\ custom_commands \in PersistedCommands
    /\ CommandsStart
    /\ VoiceIdle

CommandsSpec == CommandsInit /\ [][CommandsNext]_vars

\* the Voice cog of a bot that has started: the event loop runs the
\* leave_on_empty loop every 30 seconds, whatever else happens, and resumes a
\* play command whose await of ensure_voice is over
VoiceInit == RulesIdle /\ BotIdle

VoiceSpec ==
    /\ VoiceInit
    /\ [][VoiceNext]_vars
    /\ WF_vars(wake)
    /\ WF_vars(leave_on_empty)
    /\ \A p \in PlayCommands : WF_vars(play(p))

(* ------------------------------------------------------------------ *)
(* C1  Cache coherence, one caller: a read that directly follows an    *)
(* update of the key it looks up returns the record just written (for  *)
(* get_users, a list that holds it), never what was there before.      *)
(* ------------------------------------------------------------------ *)
C1_ReadAfterWriteIsFresh ==
    Affects(prev, last) =>
        IF last.op \in ListReads
        THEN prev.arg \in Range(last.result)
        ELSE last.result = prev.arg

\* a memoized read of a key that was memoized with another value before the write
C1_Witness ==
    /\ Affects(prev, last)
    /\ last.op = "get_config_cached"
    /\ Cached(prev.before.config, last.key)
    /\ CachedValue(prev.before.config, last.key) # prev.arg
    /\ last.result = prev.arg

(* ------------------------------------------------------------------ *)
(* C3  (as stated) update_config on K2 keeps the memoized entry of     *)
(* another key K1 and the counters, so that the next                   *)
(* get_config_cached(K1) is a hit.                                     *)
(* ------------------------------------------------------------------ *)
C3_InvalidationIsKeyScoped ==
    ( /\ prev.op = "update_config"
      /\ last.op = "get_config_cached"
      /\ last.key # prev.key
      /\ Cached(prev.before.config, last.key) )
    => /\ last.before.config = prev.before.config
       /\ last.how = "hit"
       /\ last.hits = prev.before.config.hits + 1
       /\ last.misses = prev.before.config.misses

(* ------------------------------------------------------------------ *)
(* C3  (amended) update_config on K2 empties the whole memo of         *)
(* get_config_cached and restarts its counters: the next               *)
(* get_config_cached(K1) of a key K1 # K2 that was memoized is a miss, *)
(* after which cache_info() reports misses = 1 and hits = 0.           *)
(* ------------------------------------------------------------------ *)
C3_InvalidationIsGlobal ==
    ( /\ prev.op = "update_config"
      /\ last.op = "get_config_cached"
      /\ last.key # prev.key
      /\ Cached(prev.before.config, last.key) )
    => /\ last.before.config = EmptyCache(ConfigKeys)
       /\ last.how = "miss"
       /\ last.hits = 0
       /\ last.misses = 1

\* K1 was read (a miss), K2 was written, K1 is read again
C3_Witness ==
    /\ prev.op = "update_config"
    /\ last.op = "get_config_cached"
    /\ last.key # prev.key
    /\ Cached(prev.before.config, last.key)
    /\ prev.before.config.misses = 1
    /\ last.how = "miss"

(* ------------------------------------------------------------------ *)
(* C4  update_user(g, c, u) evicts the memoized get_user entry of      *)
(* (g, c, u) and the memoized get_users entry of (g, c): the next      *)
(* get_user_cached / get_users_cached of them is a miss served from    *)
(* storage, and holds the record just written.                         *)
(* ------------------------------------------------------------------ *)
C4_UpdateUserEvictsBoth ==
    /\ ( /\ prev.op = "update_user"
         /\ last.op = "get_user_cached"
         /\ last.key = prev.key )
       => /\ ~Cached(last.before.user, last.key)
          /\ last.how = "miss"
          /\ last.result = prev.arg
          /\ last.result = SelectUser(user_offenses, last.key)
    /\ ( /\ prev.op = "update_user"
         /\ last.op = "get_users_cached"
         /\ last.key = ListKey(prev.arg) )
       => /\ ~Cached(last.before.users, last.key)
          /\ last.how = "miss"
          /\ prev.arg \in Range(last.result)
          /\ last.result = SelectUsers(user_offenses, last.key)

\* the list of (g, c) was memoized, a user of (g, c) was written, the list is read
C4_Witness ==
    /\ prev.op = "update_user"
    /\ last.op = "get_users_cached"
    /\ last.key = ListKey(prev.arg)
    /\ Cached(prev.before.users, last.key)
    /\ prev.arg \notin Range(CachedValue(prev.before.users, last.key))
    /\ last.how = "miss"

(* ------------------------------------------------------------------ *)
(* C5  Hit/miss accounting of the three memoized reads: the first read *)
(* of a key after a write to it is a miss (misses = 1, hits = 0); a    *)
(* read repeated at once is a hit; so a write and two reads of the key *)
(* give one miss, then one hit (misses = 1, hits = 1).                 *)
(* ------------------------------------------------------------------ *)
C5_HitMissAccounting ==
    /\ (Affects(prev, last) /\ last.op \in CachedReads)
       => (last.how = "miss" /\ last.misses = 1 /\ last.hits = 0)
    /\ (prev.op \in CachedReads /\ last.op = prev.op /\ last.key = prev.key)
       => (last.how = "hit" /\ last.hits = prev.hits + 1 /\ last.misses = prev.misses)

\* the second of two reads that follow a write of their key
C5_Witness ==
    /\ calls = 3
    /\ prev.op = "get_users_cached"
    /\ prev.how = "miss" /\ prev.misses = 1 /\ prev.hits = 0
    /\ \E i \in DOMAIN prev.result : UserKey(prev.result[i]) = <<1, 1, 2>>
    /\ last.op = prev.op /\ last.key = prev.key
    /\ last.how = "hit" /\ last.misses = 1 /\ last.hits = 1

(* ------------------------------------------------------------------ *)
(* C6  Upsert replace law: after update_config(c1), update_config(c2)  *)
(* on one key, the table holds for the key the row c2 and no other     *)
(* row, and get_config of the key is c2; the same for update_user and  *)
(* get_user.                                                           *)
(* ------------------------------------------------------------------ *)
C6_UpsertReplaces ==
    /\ (prev.op = "update_config" /\ last.op = "update_config" /\ last.key = prev.key)
       => /\ ConfigRows(channel_configs, last.key) = <<last.arg>>
          /\ SelectConfig(channel_configs, last.key) = last.arg
    /\ (prev.op = "update_user" /\ last.op = "update_user" /\ last.key = prev.key)
       => /\ UserRows(user_offenses, last.key) = <<last.arg>>
          /\ SelectUser(user_offenses, last.key) = last.arg
    /\ (last.op \in ConfigReads /\ latest_config[last.key] # None)
       => last.result = latest_config[last.key]
    /\ (last.op \in UserReads /\ latest_user[last.key] # None)
       => last.result = latest_user[last.key]

\* c2 differs from c1 in both varied fields
C6_Witness ==
    /\ prev.op = "update_config" /\ last.op = "update_config" /\ last.key = prev.key
    /\ last.arg.max_offenses # prev.arg.max_offenses
    /\ last.arg.prefixes # prev.arg.prefixes
    /\ Len(channel_configs) = 2

(* ------------------------------------------------------------------ *)
(* C8  Absence law: a read of a key that was never written returns     *)
(* None (get_config, get_user) or the empty list (get_users), whatever *)
(* other keys were written.                                            *)
(* ------------------------------------------------------------------ *)
C8_AbsentWhenNeverWritten ==
    /\ (last.op \in ConfigReads /\ latest_config[last.key] = None)
       => last.result = None
    /\ (last.op \in UserReads /\ latest_user[last.key] = None)
       => last.result = None
    /\ ( /\ last.op \in ListReads
         /\ \A k \in UserKeys : <<k[1], k[2]>> = last.key => latest_user[k] = None )
       => last.result = <<>>

\* the key read was never written, keys that share a field with it were
C8_Witness ==
    /\ last.op = "get_user_cached"
    /\ last.key = <<1, 1, 2>>
    /\ latest_user[last.key] = None
    /\ latest_user[<<1, 1, 1>>] # None
    /\ latest_user[<<1, 2, 1>>] # None
    /\ last.result = None

(* ------------------------------------------------------------------ *)
(* C9  List scoping: get_users(g, c) returns the last written record   *)
(* of every user written under (g, c), each once, and no record of     *)
(* another guild or channel.                                           *)
(* ------------------------------------------------------------------ *)
LatestUsersOf(lkey) ==
    {latest_user[k] : k \in {x \in UserKeys : <<x[1], x[2]>> = lkey /\ latest_user[x] # None}}

C9_ListScoping ==
    last.op \in ListReads
    => /\ Range(last.result) = LatestUsersOf(last.key)
       /\ Len(last.result) = Cardinality(LatestUsersOf(last.key))

\* two users under the listed (guild, channel), rows of another channel and guild
C9_Witness ==
    /\ last.op = "get_users_cached"
    /\ last.key = <<1, 1>>
    /\ Len(last.result) = 2
    /\ latest_user[<<1, 2, 1>>] # None
    /\ latest_user[<<2, 1, 1>>] # None

(* ------------------------------------------------------------------ *)
(* C2  Under any interleaving of the threads, a read of a key that is  *)
(* issued after a write of the key has returned returns the record of  *)
(* that write or of a later one, never an earlier one.                 *)
(* ------------------------------------------------------------------ *)
C2_NoStaleReadAfterWriteReturned ==
    done.op \in ConfigReads \cup UserReads
    => LET ws == WritesOf(TableOf(done.op), done.key) IN
       IF done.floor = 0
       THEN done.result \in {None} \cup {log[i].value : i \in ws}
       ELSE done.result \in {log[i].value : i \in {j \in ws : j >= done.floor}}

(* ------------------------------------------------------------------ *)
(* C7  Composite-key uniqueness: in every state, under any             *)
(* interleaving of update_config and update_user calls,                *)
(* channel_configs holds at most one row per (guild_id, channel_id)    *)
(* and user_offenses at most one per (guild_id, channel_id, user_id).  *)
(* ------------------------------------------------------------------ *)
C7_OneRowPerKey ==
    /\ \A k \in ConfigKeys : Len(ConfigRows(channel_configs, k)) <= 1
    /\ \A k \in UserKeys : Len(UserRows(user_offenses, k)) <= 1

\* a key that held a row was written by two calls that ran at the same time,
\* while a write of the other table was committed as well
C7_Witness ==
    /\ \E i, j \in DOMAIN log :
          /\ i < j
          /\ log[i].table = "configs" /\ log[j].table = "configs"
          /\ log[i].key = <<1, 1>> /\ log[j].key = <<1, 1>>
          /\ log[i].conc /\ log[j].conc
    /\ \E i \in DOMAIN log : i > 3 /\ log[i].table = "users"
    /\ Len(ConfigRows(channel_configs, <<1, 1>>)) = 1

(* ------------------------------------------------------------------ *)
(* C10  Two writes of one key that run at the same time are            *)
(* serialized, the last to commit wins: once both have returned the    *)
(* table holds one row of the key, the record of the later commit      *)
(* whole, and a read issued after both returned, with no memoized read *)
(* in flight during the writes, returns that row.                      *)
(* ------------------------------------------------------------------ *)
C10_LastWriterWins ==
    /\ \A i, j \in DOMAIN log :
          ( /\ i < j
            /\ log[i].table = log[j].table /\ log[i].key = log[j].key
            /\ log[i].conc /\ log[j].conc
            /\ {i, j} \subseteq returned
            /\ j = Max(WritesOf(log[j].table, log[j].key)) )
          => IF log[j].table = "configs"
             THEN ConfigRows(channel_configs, log[j].key) = <<log[j].value>>
             ELSE UserRows(user_offenses, log[j].key) = <<log[j].value>>
    /\ ( /\ done.op \in ConfigReads \cup UserReads
         /\ done.quiet
         /\ ~raced
         /\ done.floor > 0
         /\ done.floor = Max(WritesOf(TableOf(done.op), done.key)) )
       => /\ done.result = log[done.floor].value
          /\ done.result = StorageRead(done.op, done.key)

\* two update_config calls of one key with different records ran at the same
\* time and returned; a memoized read issued then has returned
C10_Witness ==
    /\ done.op = "get_config_cached"
    /\ done.quiet
    /\ ~raced
    /\ done.floor > 1
    /\ done.floor = Max(WritesOf("configs", done.key))
    /\ log[done.floor].conc
    /\ \E i \in WritesOf("configs", done.key) :
          /\ i < done.floor
          /\ log[i].conc
          /\ i \in returned
          /\ log[i].value # log[done.floor].value

(* ------------------------------------------------------------------ *)
(* C11  The DELETE and the INSERT of an update are one unit for every  *)
(* reader: a get_config / get_user, memoized or not, of a key of which *)
(* a write had returned when the read was issued never returns None,   *)
(* and a get_users never omits a user of which a write had returned,   *)
(* also while another thread is between its DELETE and its commit.     *)
(* ------------------------------------------------------------------ *)
C11_UpsertIsAtomicForReaders ==
    /\ (done.op \in ConfigReads \cup UserReads /\ done.floor > 0)
       => done.result # None
    /\ done.op \in ListReads
       => \A i \in WritesOf("users", done.key) :
             i <= done.floor
             => \E j \in DOMAIN done.result : UserKey(done.result[j]) = log[i].key

\* a listing whose storage read ran while another thread held the deleted,
\* uncommitted row of the only user under the key
C11_Witness ==
    /\ done.op = "get_users"
    /\ done.over
    /\ done.floor > 0
    /\ Len(done.result) = 1

(* ------------------------------------------------------------------ *)
(* C12  For every (guild_id, channel_id, user_id), whatever            *)
(* update_user calls are made on it, the total_offenses of its stored  *)
(* row never decreases from one state to the next.                     *)
(* ------------------------------------------------------------------ *)
C12_TotalOffensesNeverDecreases ==
    [][\A k \in UserKeys :
          (SelectUser(user_offenses, k) # None /\ SelectUser(user_offenses', k) # None)
          => SelectUser(user_offenses', k).total_offenses
                >= SelectUser(user_offenses, k).total_offenses]_vars

(* ------------------------------------------------------------------ *)
(* C13  A write call that fails raises StorageUnavailable to its       *)
(* caller and leaves no partial state: in every state the rows of a    *)
(* key are the one record of the last committed write of the key (the  *)
(* old record after a failure), whole, and every read returns None or  *)
(* the record of a committed write, never the record of a failed one   *)
(* or a table without the row.                                         *)
(* ------------------------------------------------------------------ *)
C13_FailedWriteLeavesWholeRows ==
    /\ \A k \in ConfigKeys :
          ConfigRows(channel_configs, k) =
              IF WritesOf("configs", k) = {} THEN <<>>
              ELSE <<log[Max(WritesOf("configs", k))].value>>
    /\ \A k \in UserKeys :
          UserRows(user_offenses, k) =
              IF WritesOf("users", k) = {} THEN <<>>
              ELSE <<log[Max(WritesOf("users", k))].value>>
    /\ done.how = "error" => done.result = StorageUnavailable
    /\ done.op \in ConfigReads \cup UserReads
       => done.result \in
             {None} \cup {log[i].value : i \in WritesOf(TableOf(done.op), done.key)}
    /\ done.op \in ListReads
       => \A j \in DOMAIN done.result :
             done.result[j] \in {log[i].value : i \in WritesOf("users", done.key)}

\* an update_config that had deleted the row of its key failed, and no
\* update_config was committed: the table holds the old row
C13_Witness ==
    /\ done.how = "error"
    /\ done.over
    /\ done.op = "update_config"
    /\ WritesOf("configs", done.key) = {1}
    /\ ConfigRows(channel_configs, done.key) = <<log[1].value>>
    /\ log[1].value # done.arg

(* ------------------------------------------------------------------ *)
(* C14  (as stated) update_user(g, c, u) keeps the memoized get_user   *)
(* entry of every other user and the memoized get_users entry of every *)
(* other (guild, channel): the next memoized read of such a key is a   *)
(* hit and the counters are as they were.                              *)
(* ------------------------------------------------------------------ *)
C14_UpdateUserInvalidatesPrecisely ==
    /\ ( /\ prev.op = "update_user"
         /\ last.op = "get_user_cached"
         /\ last.key # prev.key
         /\ Cached(prev.before.user, last.key) )
       => /\ last.how = "hit"
          /\ last.hits = prev.before.user.hits + 1
          /\ last.misses = prev.before.user.misses
    /\ ( /\ prev.op = "update_user"
         /\ last.op = "get_users_cached"
         /\ last.key # ListKey(prev.arg)
         /\ Cached(prev.before.users, last.key) )
       => /\ last.how = "hit"
          /\ last.hits = prev.before.users.hits + 1
          /\ last.misses = prev.before.users.misses

(* ------------------------------------------------------------------ *)
(* C14  (amended) update_user(g, c, u) empties the whole memos of      *)
(* get_user_cached and get_users_cached and restarts their counters:   *)
(* the next memoized read of another user, or of the list of another   *)
(* (guild, channel), that was memoized is a miss served from storage,  *)
(* after which cache_info() reports misses = 1 and hits = 0.           *)
(* ------------------------------------------------------------------ *)
C14_UpdateUserInvalidatesAll ==
    /\ ( /\ prev.op = "update_user"
         /\ last.op = "get_user_cached"
         /\ last.key # prev.key
         /\ Cached(prev.before.user, last.key) )
       => /\ last.before.user = EmptyCache(UserKeys)
          /\ last.how = "miss"
          /\ last.hits = 0
          /\ last.misses = 1
          /\ last.result = SelectUser(user_offenses, last.key)
    /\ ( /\ prev.op = "update_user"
         /\ last.op = "get_users_cached"
         /\ last.key # ListKey(prev.arg)
         /\ Cached(prev.before.users, last.key) )
       => /\ last.before.users = EmptyCache(ListKeys)
          /\ last.how = "miss"
          /\ last.hits = 0
          /\ last.misses = 1
          /\ last.result = SelectUsers(user_offenses, last.key)

\* user 1 of (1, 1) was read (a miss), user 2 of (1, 1) was written, user 1 is
\* read again
C14_Witness ==
    /\ prev.op = "update_user"
    /\ prev.key = <<1, 1, 2>>
    /\ last.op = "get_user_cached"
    /\ last.key = <<1, 1, 1>>
    /\ Cached(prev.before.user, last.key)
    /\ prev.before.user.misses = 1
    /\ last.how = "miss"

(* ------------------------------------------------------------------ *)
(* C15  Writes to different keys are independent: a step changes the   *)
(* rows of a key only when it commits an update of that very key (and  *)
(* of that table), and whatever the order in which the calls of the    *)
(* threads commit, the table holds for every key the record of its     *)
(* last write and nothing else.                                        *)
(* ------------------------------------------------------------------ *)
C15_WritesToOtherKeysAreIndependent ==
    /\ [][ /\ \A k \in ConfigKeys :
                ConfigRows(channel_configs', k) # ConfigRows(channel_configs, k)
                => \E t \in Threads :
                      /\ pc[t] = "inserted" /\ pc'[t] = "closing"
                      /\ cur[t].op = "update_config" /\ cur[t].key = k
           /\ \A k \in UserKeys :
                UserRows(user_offenses', k) # UserRows(user_offenses, k)
                => \E t \in Threads :
                      /\ pc[t] = "inserted" /\ pc'[t] = "closing"
                      /\ cur[t].op = "update_user" /\ cur[t].key = k ]_vars
    /\ [] ( /\ Range(channel_configs) =
                  {log[Max(WritesOf("configs", k))].value :
                      k \in {x \in ConfigKeys : WritesOf("configs", x) # {}}}
            /\ Range(user_offenses) =
                  {log[Max(WritesOf("users", k))].value :
                      k \in {x \in UserKeys : WritesOf("users", x) # {}}} )

\* two update_config calls of different keys have run at the same time and
\* committed, the call of the key that had no row first
C15_Witness ==
    /\ pc[1] = "committed" /\ pc[2] = "committed"
    /\ cur[1].op = "update_config" /\ cur[2].op = "update_config"
    /\ cur[1].key # cur[2].key
    /\ ConfigKey(channel_configs[1]) = <<1, 2>>
    /\ Len(channel_configs) = 2

(* ------------------------------------------------------------------ *)
(* C16  Opening the store is idempotent: once Rules has been           *)
(* constructed on a path both tables exist and each was created        *)
(* exactly once, however often Rules is constructed on the path again; *)
(* constructing it again is not an error and the tables hold for every *)
(* key the row last written, as before.                                *)
(* ------------------------------------------------------------------ *)
C16_OpenIsIdempotent ==
    /\ opens > 0 => \A name \in TableNames : schema[name] = 1
    /\ \A k \in ConfigKeys :
          ConfigRows(channel_configs, k) =
              IF latest_config[k] = None THEN <<>> ELSE <<latest_config[k]>>
    /\ \A k \in UserKeys :
          UserRows(user_offenses, k) =
              IF latest_user[k] = None THEN <<>> ELSE <<latest_user[k]>>
    /\ last.op = "open" => (last.result = None /\ opens > 0)

\* Rules was constructed on a path without a file, a row was written, and Rules
\* was constructed on the path again
C16_Witness ==
    /\ opens = 2
    /\ prev.op = "update_config"
    /\ last.op = "open"
    /\ channel_configs = <<prev.arg>>
    /\ user_offenses = <<>>

(* ------------------------------------------------------------------ *)
(* C17  Cache/store coherence: in every state in which no thread is    *)
(* inside a facade call, every entry the memos of get_config_cached,   *)
(* get_user_cached and get_users_cached hold (None and lists included) *)
(* is what the storage lookup of its key returns in that state.        *)
(* ------------------------------------------------------------------ *)
C17_MemosAgreeWithStoreWhenQuiescent ==
    (\A t \in Threads : pc[t] = "idle")
    => /\ \A k \in ConfigKeys :
             Cached(config_cache, k)
             => CachedValue(config_cache, k) = SelectConfig(channel_configs, k)
       /\ \A k \in UserKeys :
             Cached(user_cache, k)
             => CachedValue(user_cache, k) = SelectUser(user_offenses, k)
       /\ \A k \in ListKeys :
             Cached(users_cache, k)
             => CachedValue(users_cache, k) = SelectUsers(user_offenses, k)

(* ------------------------------------------------------------------ *)
(* C18  Storage calls of the memoized reads.  The parts the statement  *)
(* and its amendment share: a call that hits makes no storage read and *)
(* returns the entry held; a call that misses makes exactly one        *)
(* storage read, returns its result and keeps it in the memo, None and *)
(* the empty list included; a read of a key that holds nothing,        *)
(* repeated with no write in between, is a hit that returns absent.    *)
(* ------------------------------------------------------------------ *)
MemoNames == {"config", "user", "users"}

C18_CallAccounting ==
    (calls' = calls + 1 /\ last'.op \in CachedReads)
    => LET m == MemoName(last'.op) IN
       /\ last'.how \in {"hit", "miss"}
       /\ last'.how = "hit"
          => /\ storage_reads' = storage_reads
             /\ Cached(Memos[m], last'.key)
             /\ last'.result = CachedValue(Memos[m], last'.key)
       /\ last'.how = "miss"
          => /\ storage_reads' = [storage_reads EXCEPT ![m] = @ + 1]
             /\ last'.result = StorageRead(last'.op, last'.key)
             /\ Cached(Memos'[m], last'.key)
             /\ CachedValue(Memos'[m], last'.key) = last'.result

C18_AbsentIsMemoized ==
    ( /\ prev.op \in CachedReads
      /\ last.op = prev.op /\ last.key = prev.key
      /\ IF prev.op \in ListReads THEN prev.result = <<>> ELSE prev.result = None )
    => (last.how = "hit" /\ last.result = prev.result)

(* C18  (as stated) ... and the number of storage reads a memoized     *)
(* read has made always equals its miss counter.                       *)
C18_StorageReadsEqualMisses ==
    /\ [][C18_CallAccounting]_vars
    /\ [](C18_AbsentIsMemoized
          /\ \A m \in MemoNames : storage_reads[m] = Memos[m].misses)

(* C18  (amended) ... and the miss counter counts the storage reads    *)
(* made since the memo was last cleared: a step that is not a write    *)
(* clearing the memo adds the same number to both, a write that clears *)
(* the memo sets the miss counter to 0 and leaves the storage reads    *)
(* made, so the counter never exceeds them.                            *)
C18_MissesCountStorageReadsSinceClear ==
    /\ [][ /\ C18_CallAccounting
           /\ \A m \in MemoNames :
                 \/ Memos'[m].misses - Memos[m].misses
                       = storage_reads'[m] - storage_reads[m]
                 \/ /\ last'.how = "write"
                    /\ Memos'[m].misses = 0
                    /\ storage_reads'[m] = storage_reads[m] ]_vars
    /\ [](C18_AbsentIsMemoized
          /\ \A m \in MemoNames : storage_reads[m] >= Memos[m].misses)

\* a key never written was read (a miss), a write of another key cleared the
\* memo, the key is read again: two storage reads made, one miss counted, None
\* kept in the memo
C18_Witness ==
    /\ last.op = "get_config_cached"
    /\ last.how = "miss"
    /\ last.result = None
    /\ latest_config[last.key] = None
    /\ prev.op = "update_config"
    /\ Cached(prev.before.config, last.key)
    /\ Cached(config_cache, last.key)
    /\ CachedValue(config_cache, last.key) = None
    /\ storage_reads.config = 2
    /\ config_cache.misses = 1

(* ------------------------------------------------------------------ *)
(* C19  Connections are scoped to the operation: in every state the    *)
(* open connections are those of the calls that are inside their       *)
(* storage operation (between connect() and the end of its block), one *)
(* each, whether the operation ends by a commit, a result, an empty    *)
(* result or an exception; none is open when no call is.               *)
(* ------------------------------------------------------------------ *)
C19_ConnectionsAreScoped ==
    /\ conns = {t \in Threads :
                  pc[t] \in {"connected", "deleted", "inserted", "closing", "rolledback"}}
    /\ (\A t \in Threads : pc[t] = "idle") => conns = {}

\* a write that had written failed while another call is inside its
\* transaction: the connection of the failed call is closed, the other is open
C19_Witness ==
    /\ done.how = "error"
    /\ done.over
    /\ pc[done.t] = "idle"
    /\ \E u \in Threads : u # done.t /\ pc[u] = "connected" /\ conns = {u}

\* the count an entry has in a table, 0 when the table has no entry of that name
CountOf(table, name) ==
    IF SearchEquals(table, name) = <<>> THEN 0 ELSE SearchEquals(table, name)[1].count

(* ------------------------------------------------------------------ *)
(* C21  Bans.up(server, name) that returns has added exactly 1 to the   *)
(* count of name and exactly 1 to the count of the 'server' entry of    *)
(* that table and has left the count of every other entry as it was;   *)
(* and a check that returns gives the number of calls of up for that    *)
(* name since the table was new or the name was cleared.                *)
(* ------------------------------------------------------------------ *)
C21_UpAddsOneToNameAndServer ==
    LET before == bans_last.before
        after == bans[bans_last.server]
    IN  /\ (bans_last.op = "up" /\ bans_last.raised = "") =>
              /\ CountOf(after, bans_last.name) = CountOf(before, bans_last.name) + 1
              /\ CountOf(after, ServerEntry) = CountOf(before, ServerEntry) + 1
              /\ \A other \in Names \ {bans_last.name} :
                    CountOf(after, other) = CountOf(before, other)
        /\ (bans_last.op = "check" /\ bans_last.raised = "") =>
              bans_last.result = bans_ups[bans_last.server][bans_last.name]

(* ------------------------------------------------------------------ *)
(* C22  Bans.check(server, name) never raises, whatever the table       *)
(* holds; it returns the count of name in the table; it has inserted    *)
(* name with count 0 when the table had no entry of exactly that name   *)
(* and has changed nothing otherwise, so the table holds one entry of   *)
(* that name.                                                           *)
(* ------------------------------------------------------------------ *)
C22_CheckReturnsCountAndNeverFails ==
    LET before == bans_last.before
        after == bans[bans_last.server]
    IN  bans_last.op = "check" =>
            /\ bans_last.raised = ""
            /\ bans_last.result = CountOf(after, bans_last.name)
            /\ Len(SearchEquals(after, bans_last.name)) = 1
            /\ after = IF SearchEquals(before, bans_last.name) = <<>>
                       THEN InsertEntry(before, bans_last.name)
                       ELSE before

(* ------------------------------------------------------------------ *)
(* C23  Registry consistency: once register_all has returned, whenever  *)
(* every create and remove command begun since has ended, however the   *)
(* tasks of the commands were interleaved at their awaits, the names in *)
(* the bot's command tree for a guild are the names stored in           *)
(* custom_commands for that guild.                                      *)
(* ------------------------------------------------------------------ *)
C23_TreeAgreesWithTable ==
    (/\ registered = "returned"
     /\ \A t \in Tasks : tasks[t].pc = "idle")
    => \A guild_id \in Guilds : tree[guild_id] = StoredNames(guild_id)

\* the guild has a voice client whose channel has at most one member
Lonely(guild_id) ==
    Connected(voice_clients, guild_id) /\ ChannelMembers(guild_id) <= 1

(* ------------------------------------------------------------------ *)
(* C24  Leave on empty: no voice client, whatever its place in          *)
(* bot.voice_clients, stays for ever connected to a channel with at     *)
(* most one member (the loop disconnects it), and the loop disconnects  *)
(* no client whose channel has two or more members.                     *)
(* ------------------------------------------------------------------ *)
C24_LeaveOnEmptyDisconnectsEveryClient ==
    /\ \A guild_id \in Guilds : []<>(~Lonely(guild_id))
    /\ [](loop_left.guild_id # 0 => loop_left.members <= 1)

(* ------------------------------------------------------------------ *)
(* C25  The body of the play command reaches ctx.voice_client.play only *)
(* with a connected voice client: not after ensure_voice found no       *)
(* client and an author who is in no voice channel; and the client is   *)
(* not playing when the new sound is played.                            *)
(* ------------------------------------------------------------------ *)
C25_PlayOnlyWithConnectedClient ==
    /\ played.reached => played.connected
    /\ played.ensured = "refused" => ~played.reached
    /\ played.reached => ~played.busy

====
